---- MODULE Spec2Model ----
(***************************************************************************)
(* Model of the moose_jump_lights firmware sketch                          *)
(* (ESP32_BNO085_function_check_UART.ino): the device side (wsEvent, loop, *)
(* rotateLog) and the browser side clock synchronisation (syncClock,       *)
(* makeEWMA, ws.onopen, ws.onmessage) embedded in PAGE_INDEX.              *)
(*                                                                         *)
(* uint32_t values (millis, micros, seqNo) are records [hi, lo] of two     *)
(* 16-bit halves, so that the 32-bit wrap is computed exactly.             *)
(***************************************************************************)
EXTENDS Integers, Sequences, FiniteSets, TLC

\* ---------------------------------------------------------------- bounds
\* total milliseconds the device clock may advance in one run
MaxRun == 16
\* number of control-channel events (text or other) handled in one run
MaxMsgs == 2

\* ------------------------------------------------------ uint32 arithmetic
W16 == 65536

Mk32(h, l) == [hi |-> h, lo |-> l]
Zero32 == Mk32(0, 0)
Max32 == Mk32(W16 - 1, W16 - 1)

\* a + n (mod 2^32), for 0 <= n < 2^30
Add32(a, n) ==
    LET t == a.lo + n
    IN  Mk32((a.hi + (t \div W16)) % W16, t % W16)

\* a - b (mod 2^32)
Sub32(a, b) ==
    LET l == a.lo - b.lo
        borrow == IF l < 0 THEN 1 ELSE 0
    IN  Mk32((a.hi - b.hi - borrow + 2 * W16) % W16, (l + W16) % W16)

\* a >= n for a small constant n < 2^16
Ge32(a, n) == a.hi > 0 \/ a.lo >= n

\* ------------------------------------------------------------ constants
\* 16 ms throttle of loop()
TargetPeriod == 16
\* delay(100) of setup(): millis() when loop() first runs is at least this
BootMs == 100

\* IPAddress(0,0,0,0)
NoIP == <<0, 0, 0, 0>>
Addrs == {NoIP, <<10, 0, 0, 7>>, <<10, 0, 0, 9>>}

\* WebSocket client numbers
Clients == {0, 1}


\* ------------------------------------------------------ control messages
\* A text payload received by wsEvent.  wsEvent never parses JSON: it looks
\* for substrings.  A payload is modelled by what those searches can find:
\*   tags  the "type":"..." tags occurring in it,
\*   hasIp / ip    whether "ip":" occurs, and the text up to the next quote
\*                 (<<>> is the empty text, otherwise a dotted quad),
\*   hasT0 / t0    whether "t0": occurs, and the number after it in units
\*                 of 1/10000 ms,
\*   kind, note    the texts after "kind":" and "note":" ("" / <<>> when the
\*                 key does not occur); a note is a sequence of characters.
Msg(tags, hasIp, ip, hasT0, t0, kind, note) ==
    [tags |-> tags, hasIp |-> hasIp, ip |-> ip, hasT0 |-> hasT0, t0 |-> t0,
     kind |-> kind, note |-> note]

NoMsg == Msg({}, FALSE, <<>>, FALSE, 0, "", <<>>)

\* t0 values (1/10000 ms): 1000.1234, 1000.1236 and 1000.0005, whose nearest
\* double lies below it
T0Vals == {10001234, 10001236, 10000005}

HelloMsgs ==
    {Msg({"hello"}, FALSE, <<>>, FALSE, 0, "", <<>>)}
    \cup {Msg({"hello"}, TRUE, a, FALSE, 0, "", <<>>) : a \in Addrs \cup {<<>>}}
SyncMsgs ==
    {Msg({"sync"}, FALSE, <<>>, FALSE, 0, "", <<>>)}
    \cup {Msg({"sync"}, FALSE, <<>>, TRUE, t, "", <<>>) : t \in T0Vals}
RotateMsgs == {Msg({"rotate"}, FALSE, <<>>, FALSE, 0, "", <<>>)}
EventMsgs ==
    {Msg({"event"}, FALSE, <<>>, FALSE, 0, "catch", <<>>),
     Msg({"event"}, FALSE, <<>>, FALSE, 0, "other", <<"a", ",", "b">>)}
\* neither hello, sync, rotate nor event: another tag, or no tag at all
UnknownMsgs ==
    {Msg({"foo"}, FALSE, <<>>, FALSE, 0, "", <<>>),
     Msg({}, FALSE, <<>>, FALSE, 0, "", <<>>)}
\* payloads in which several tags occur
MixedMsgs ==
    {Msg({"event", "hello"}, TRUE, <<10, 0, 0, 9>>, FALSE, 0, "other", <<>>),
     Msg({"hello", "sync"}, TRUE, <<10, 0, 0, 7>>, TRUE, 10001236, "", <<>>),
     Msg({"sync", "rotate"}, FALSE, <<>>, TRUE, 10001234, "", <<>>)}

TextMsgs ==
    HelloMsgs \cup SyncMsgs \cup RotateMsgs \cup EventMsgs \cup UnknownMsgs
    \cup MixedMsgs

\* msg.indexOf("\"type\":\"hello\"") >= 0, and so on
HasHello(m) == "hello" \in m.tags
HasSync(m) == "sync" \in m.tags
HasRotate(m) == "rotate" \in m.tags

\* (mutation of Branch: the rotate test is made before the sync test)
BranchRotateFirst(m) ==
    IF HasHello(m) THEN "hello"
    ELSE IF HasRotate(m) THEN "rotate"
    ELSE IF HasSync(m) THEN "sync"
    ELSE "event"

\* the branch of wsEvent a text payload takes (first match wins)
Branch(m) ==
    IF HasHello(m) THEN "hello"
    ELSE IF HasSync(m) THEN "sync"
    ELSE IF HasRotate(m) THEN "rotate"
    ELSE "event"

\* --------------------------------------------------------------- state
VARIABLES
    \* device (firmware) state
    clock,          \* millis(), uint32
    usClock,        \* micros(), uint32
    lastClientIP,   \* registered datagram endpoint (IPAddress)
    seqNo,          \* sequence counter, uint32
    lastSend,       \* static lastSend of loop(), uint32
    idx,            \* static idx of rotateLog(), uint16
    logFile,        \* whether logFile is an open file
    currentLogName, \* 0 for /imu_log.csv, k for /imu_log_k.csv
    connected,      \* WebSocket clients currently connected
    \* what the last step sent and wrote
    wsOut,          \* messages put on the control channel: [to, body]
    udpOut,         \* datagrams sent: [dst, port, pkt]
    logOut,         \* lines appended to the log file
    \* history
    lastOp,         \* the last operation and its inputs
    helloSeen,      \* some handled text contained the hello tag
    udpCount,       \* datagrams sent so far
    frames,         \* the last two emitted frames: [seq, t, dst]
    lastHello,      \* the last text handled by the hello branch
    elapsed,        \* true milliseconds since lastSend was assigned
    run,            \* milliseconds advanced so far
    nMsgs,          \* text messages handled so far
    \* browser (page script) state
    now,            \* performance.now(), in ms
    wsState,        \* "connecting", "open"
    batches,        \* the syncClock calls: [samples, pending, results, tries,
                    \*   fin, resolved]
    listeners,      \* the onMsg listeners on ws, in the order added: [b, k, t0]
    timers,         \* the setTimeout callbacks not yet run or cleared: [b, k, due]
    rttEwma,        \* makeEWMA(0.3)
    offsetEwma,     \* makeEWMA(0.2)
    \* control channel
    toDev,          \* texts sent by the page, not yet handled by wsEvent
    toCli,          \* messages sent to the page, not yet dispatched
    accepted,       \* the server holds the connection of the page's socket
    \* what the last step of the page did
    pushes,         \* results pushed: [b, k, t0, tA, t1, res]
    folds,          \* finish calls: [b, n, rtt, offset, before]
    ticks           \* clock steps taken so far

devVars == <<clock, usClock, lastClientIP, seqNo, lastSend, idx, logFile,
             currentLogName, connected, wsOut, udpOut, logOut, lastOp,
             helloSeen, udpCount, frames, lastHello, elapsed, run, nMsgs>>

cliVars == <<now, wsState, batches, listeners, timers, rttEwma, offsetEwma,
             pushes, folds, ticks>>

chanVars == <<toDev, toCli, accepted>>

vars == <<devVars, cliVars, chanVars>>

Op(op, num, msg, read) == [op |-> op, num |-> num, msg |-> msg, read |-> read]

\* ------------------------------------------------------- device: wsEvent
UDP_DST_PORT == 9001

\* 2^k modulo m
RECURSIVE PowMod2(_, _)
PowMod2(k, m) == IF k = 0 THEN 1 % m ELSE (2 * PowMod2(k - 1, m)) % m

\* the exponent e of the binary number nearest to n/den, n > 0:
\* 2^e <= n/den < 2^(e+1)
RECURSIVE Log2Up(_, _)
Log2Up(n, den) == IF n \div 2 < den THEN 0 ELSE 1 + Log2Up(n \div 2, den)
RECURSIVE Log2Down(_, _)
Log2Down(n, den) == IF n >= den THEN 0 ELSE 1 + Log2Down(2 * n, den)
BinExp(n, den) == IF n >= den THEN Log2Up(n, den) ELSE -Log2Down(n, den)

\* The decimal number n/den (n > 0, den < 2^15) is stored as the nearest
\* binary floating-point number with a mantissa of bits bits: 0 when that
\* number is n/den itself, -1 when it lies below n/den, 1 when it lies above.
\* With s the number of fraction bits kept, it is decided by the remainder of
\* n * 2^s by den (the remainder is never den/2 for den = 1000, 10000 and
\* s >= 4).
BinSide(n, den, bits) ==
    LET s == (bits - 1) - BinExp(n, den)
        r == ((n % den) * PowMod2(s, den)) % den
    IN  IF r = 0 THEN 0 ELSE IF 2 * r < den THEN -1 ELSE 1

\* printf with a precision one digit short of the decimal digits of x/den
\* (x >= 0 in units of 1/den, the result in the same units): the last digit
\* is rounded away.  What is rounded is the binary number that stores x/den:
\* on a last digit of 5 it goes up when that number lies above x/den, down
\* when it lies below, and to the even digit when it is x/den exactly.
FmtDrop(x, den, bits) ==
    LET q == x \div 10
        d == x % 10
        side == BinSide(x, den, bits)
        up == \/ d > 5
              \/ d = 5 /\ side = 1
              \/ d = 5 /\ side = 0 /\ q % 2 = 1
    IN  IF up THEN (q + 1) * 10 ELSE q * 10

\* "%.3f" of the double t0, a non-negative number given in 1/10000 (below
\* 2^31/10000): rounded to 1/1000
Fmt3(x) == FmtDrop(x, 10000, 53)

\* the t0 the sync branch parses: 0 unless "t0": occurs
ParseT0(m) == IF m.hasT0 THEN m.t0 ELSE 0

\* (mutation of SyncReply: the time of the last emission instead of now)
SyncReplyStale(m, ms) ==
    [type |-> "sync", t0 |-> Fmt3(ParseT0(m)), t1_ms |-> lastSend]

\* the reply of the sync branch
SyncReply(m, ms) == [type |-> "sync", t0 |-> Fmt3(ParseT0(m)), t1_ms |-> ms]

Ack(cmd) == [type |-> "ack", cmd |-> cmd]

\* ws.sendTXT(num, body)
SendTXT(num, body) == [to |-> {num}, body |-> body]

\* (mutation of HelloEndpoint: the first registration wins)
HelloEndpointFirst(old, m) ==
    IF m.hasIp /\ Len(m.ip) > 0 /\ old = NoIP THEN m.ip ELSE old

\* (mutation of HelloEndpoint: a repeated hello unregisters)
HelloEndpointToggle(old, m) ==
    IF m.hasIp /\ Len(m.ip) > 0
    THEN (IF old = m.ip THEN NoIP ELSE m.ip)
    ELSE old

\* (mutation of HelloEndpoint: a hello without an address unregisters)
HelloEndpointClear(old, m) ==
    IF m.hasIp /\ Len(m.ip) > 0 THEN m.ip ELSE NoIP

\* lastClientIP after the hello branch: fromString of the text after "ip":"
\* when the key occurs and the text is not empty
HelloEndpoint(old, m) ==
    IF m.hasIp /\ Len(m.ip) > 0 THEN m.ip ELSE old

\* note.replace(",", " ")
ReplaceCommas(note) ==
    [i \in 1..Len(note) |-> IF note[i] = "," THEN " " ELSE note[i]]

\* the line the event branch prints: "%lu,,,,,,,%s,%s\n"
EventLine(ms, m) == [t |-> ms, kind |-> m.kind, note |-> ReplaceCommas(m.note)]

HeaderLine == [t |-> Zero32, kind |-> "header", note |-> <<>>]

\* (mutation of RotatedIdx: idx is used without being incremented)
RotatedIdxStuck(i) == i

\* idx++ of rotateLog, a uint16_t
RotatedIdx(i) == (i + 1) % W16

\* the reply every branch ends with
ReplyOf(m, ms) ==
    CASE Branch(m) = "hello" -> Ack("hello")
      [] Branch(m) = "sync" -> SyncReply(m, ms)
      [] Branch(m) = "rotate" -> Ack("rotate")
      [] OTHER -> Ack("event")

\* wsEvent(num, WStype_TEXT, payload, len); ok is the outcome of LittleFS.open
\* in rotateLog
wsEvent(num, m, ok) ==
    /\ num \in connected
    /\ lastOp' = Op("text", num, m, ok)
    /\ helloSeen' = (helloSeen \/ HasHello(m))
    /\ lastHello' = IF Branch(m) = "hello" THEN <<m>> ELSE lastHello
    /\ lastClientIP' =
          IF Branch(m) = "hello" THEN HelloEndpoint(lastClientIP, m)
          ELSE lastClientIP
    /\ IF Branch(m) = "rotate"
       THEN /\ idx' = RotatedIdx(idx)
            /\ currentLogName' = idx
            /\ logFile' = ok
            /\ logOut' = IF ok THEN <<HeaderLine>> ELSE <<>>
       ELSE /\ UNCHANGED <<idx, currentLogName, logFile>>
            /\ logOut' = IF Branch(m) = "event" /\ logFile
                         THEN <<EventLine(clock, m)>> ELSE <<>>
    /\ wsOut' = <<SendTXT(num, ReplyOf(m, clock))>>
    /\ udpOut' = <<>>
    /\ UNCHANGED <<clock, usClock, seqNo, lastSend, connected, udpCount,
                   frames, elapsed, run>>

\* wsEvent with any other type (connect, disconnect, binary, ping ...): the
\* handler does nothing; the library keeps the set of connected clients
wsEventOther(num, type) ==
    /\ \/ type = "CONNECTED" /\ num \notin connected
          /\ connected' = connected \cup {num}
       \/ type = "DISCONNECTED" /\ num \in connected
          /\ connected' = connected \ {num}
       \/ type = "BIN" /\ num \in connected
          /\ UNCHANGED connected
    /\ lastOp' = Op(type, num, NoMsg, FALSE)
    /\ wsOut' = <<>> /\ udpOut' = <<>> /\ logOut' = <<>>
    /\ UNCHANGED <<clock, usClock, lastClientIP, seqNo, lastSend, idx, logFile,
                   currentLogName, helloSeen, udpCount, frames, lastHello,
                   elapsed, run>>

\* ---------------------------------------------------------- device: loop
\* BNO08x_RVC_Data: the heading in 1/1000 degree stands for the six floats
Samples == {12344}

\* microseconds between the two dev_now_us() calls of one iteration
ProcUs == {0, 37}

\* "%.2f" of the float d.yaw, a non-negative number given in 1/1000 (a
\* heading, below 360): rounded to 1/100
Fmt2(x) == FmtDrop(x, 1000, 24)

\* a >= b as unsigned numbers
Geq32(a, b) == a.hi > b.hi \/ (a.hi = b.hi /\ a.lo >= b.lo)

\* (mutation of Due: t_ms >= lastSend + 16, the sum wraps)
DueSum(t_ms, last) == Geq32(t_ms, Add32(last, TargetPeriod))

\* t_ms - lastSend >= 16 in uint32_t arithmetic
Due(t_ms, last) == Ge32(Sub32(t_ms, last), TargetPeriod)

\* (mutation of UdpEnabled: the endpoint check is missing)
UdpEnabledAlways(ip) == TRUE

\* lastClientIP != IPAddress(0,0,0,0)
UdpEnabled(ip) == ip # NoIP

DataFrame(seq, t_ms, tr_us, ts_us, d) ==
    [type |-> "data", seq |-> seq, t |-> t_ms, tr_us |-> tr_us,
     ts_us |-> ts_us, yaw |-> Fmt2(d)]

\* (mutation of TelemetryPkt: the send time is taken from the read time)
TelemetryPktReadTime(seq, t_ms, tr_us, ts_us, d) ==
    [seq |-> seq, t_ms |-> t_ms, tr_us |-> tr_us, ts_us |-> tr_us, yaw |-> d]

TelemetryPkt(seq, t_ms, tr_us, ts_us, d) ==
    [seq |-> seq, t_ms |-> t_ms, tr_us |-> tr_us, ts_us |-> ts_us, yaw |-> d]

\* (mutation of SeqAfter: ++seqNo before the throttle)
SeqAfterRead(seq, read, emit) == IF read THEN Add32(seq, 1) ELSE seq

\* (mutation of SeqAfter: ++seqNo at the top of every iteration)
SeqAfterAlways(seq, read, emit) == Add32(seq, 1)

\* seqNo after one iteration: ++seqNo inside the throttled block only
SeqAfter(seq, read, emit) == IF emit THEN Add32(seq, 1) ELSE seq

\* the history of emitted frames keeps the last two
Remember(fs, f) == IF Len(fs) = 0 THEN <<f>> ELSE <<fs[Len(fs)], f>>

\* ws.broadcastTXT(js)
BroadcastTXT(body) == [to |-> connected, body |-> body]

\* The sample part of one loop() iteration.  read is the result of
\* rvc.read(&d), d the sample, g the time between the two micros() reads.
loop(read, d, g) ==
    LET tr_us == usClock
        t_ms == clock
        ts_us == Add32(usClock, g)
        emit == read /\ Due(t_ms, lastSend)
        thisSeq == SeqAfter(seqNo, read, emit)
    IN  /\ lastOp' = Op("loop", 0, NoMsg, read)
        /\ logOut' = <<>>
        /\ seqNo' = thisSeq
        /\ IF emit
           THEN /\ lastSend' = t_ms
                /\ wsOut' = <<BroadcastTXT(DataFrame(thisSeq, t_ms, tr_us, ts_us, d))>>
                /\ udpOut' =
                      IF UdpEnabled(lastClientIP)
                      THEN <<[dst |-> lastClientIP, port |-> UDP_DST_PORT,
                              pkt |-> TelemetryPkt(thisSeq, t_ms, tr_us, ts_us, d)]>>
                      ELSE <<>>
                /\ udpCount' = udpCount + Len(udpOut')
                /\ frames' = Remember(frames, [seq |-> thisSeq, t |-> t_ms,
                                                dst |-> lastClientIP])
                /\ elapsed' = 0
           ELSE /\ wsOut' = <<>> /\ udpOut' = <<>>
                /\ UNCHANGED <<lastSend, udpCount, frames, elapsed>>
        /\ UNCHANGED <<clock, usClock, lastClientIP, idx, logFile,
                       currentLogName, connected, helloSeen, lastHello, run>>

\* time passes between two steps
ClockSteps == {15, 16}

AdvanceClock(dt) ==
    /\ run' = run + dt
    /\ clock' = Add32(clock, dt)
    /\ usClock' = Add32(usClock, dt * 1000)
    /\ elapsed' = elapsed + dt
    /\ lastOp' = Op("clock", 0, NoMsg, FALSE)
    /\ wsOut' = <<>> /\ udpOut' = <<>> /\ logOut' = <<>>
    /\ UNCHANGED <<lastClientIP, seqNo, lastSend, idx, logFile, currentLogName,
                   connected, helloSeen, udpCount, frames, lastHello>>

\* -------------------------------------------------------------- device
\* milliseconds before the uint32 wrap of millis() in the aged start state
NearWrap == 10

\* the state when loop() first runs: setup() has set lastClientIP to 0.0.0.0
\* and opened /imu_log.csv (the open may have failed)
InitBoot ==
    /\ clock = Mk32(0, BootMs)
    /\ usClock = Add32(Zero32, BootMs * 1000)
    /\ seqNo = Zero32
    /\ lastSend = Zero32
    /\ frames = <<>>
    /\ elapsed = BootMs

\* a device that has run for a long time without a client: millis() is about
\* to wrap, seqNo is about to wrap, and a frame has just been emitted
InitAged ==
    /\ clock = Sub32(Zero32, Mk32(0, NearWrap))
    /\ usClock = Sub32(Zero32, Mk32(0, NearWrap * 1000))
    /\ seqNo = Max32
    /\ lastSend = clock
    /\ frames = <<[seq |-> seqNo, t |-> lastSend, dst |-> NoIP]>>
    /\ elapsed = 0

InitGlobals ==
    /\ lastClientIP = NoIP
    /\ idx = 1
    /\ currentLogName = 0
    /\ connected = {}
    /\ wsOut = <<>> /\ udpOut = <<>> /\ logOut = <<>>
    /\ lastOp = Op("init", 0, NoMsg, FALSE)
    /\ helloSeen = FALSE
    /\ lastHello = <<>>
    /\ udpCount = 0
    /\ run = 0
    /\ nMsgs = 0

\* =================================================== browser side (script)
\* JavaScript numbers are IEEE 754 doubles: every +, - and * rounds its exact
\* result to the nearest number with a mantissa of 53 bits, ties to even.  A
\* mantissa does not fit a machine integer of the model checker, so natural
\* numbers of any size are kept as sequences of digits in base 2^14, lowest
\* digit first, the highest digit not 0 (<<>> is 0).
LimbBits == 14
Base == 16384

Abs(x) == IF x < 0 THEN -x ELSE x

RECURSIVE BNorm(_)
BNorm(a) ==
    IF Len(a) = 0 \/ a[Len(a)] # 0 THEN a
    ELSE BNorm(SubSeq(a, 1, Len(a) - 1))

RECURSIVE BFromInt(_)
BFromInt(n) == IF n = 0 THEN <<>> ELSE <<n % Base>> \o BFromInt(n \div Base)

RECURSIVE BAddC(_, _, _)
BAddC(a, b, c) ==
    IF Len(a) = 0 /\ Len(b) = 0 THEN (IF c = 0 THEN <<>> ELSE <<c>>)
    ELSE LET x == IF Len(a) = 0 THEN 0 ELSE Head(a)
             y == IF Len(b) = 0 THEN 0 ELSE Head(b)
             t == x + y + c
         IN  <<t % Base>> \o BAddC(IF Len(a) = 0 THEN a ELSE Tail(a),
                                   IF Len(b) = 0 THEN b ELSE Tail(b),
                                   t \div Base)

BAdd(a, b) == BAddC(a, b, 0)

\* a - b - c for a >= b + c
RECURSIVE BSubC(_, _, _)
BSubC(a, b, c) ==
    IF Len(a) = 0 THEN <<>>
    ELSE LET y == IF Len(b) = 0 THEN 0 ELSE Head(b)
             t == Head(a) - y - c
         IN  <<(t + Base) % Base>>
               \o BSubC(Tail(a), IF Len(b) = 0 THEN b ELSE Tail(b),
                        IF t < 0 THEN 1 ELSE 0)

BSub(a, b) == BNorm(BSubC(a, b, 0))

\* -1, 0 or 1 as a is below, equal to or above b
RECURSIVE BCmpFrom(_, _, _)
BCmpFrom(a, b, i) ==
    IF i = 0 THEN 0
    ELSE IF a[i] # b[i] THEN (IF a[i] < b[i] THEN -1 ELSE 1)
    ELSE BCmpFrom(a, b, i - 1)

BCmp(a, b) ==
    IF Len(a) # Len(b) THEN (IF Len(a) < Len(b) THEN -1 ELSE 1)
    ELSE BCmpFrom(a, b, Len(a))

\* a * k + c for one digit k > 0 and a carry c
RECURSIVE BMulSmallC(_, _, _)
BMulSmallC(a, k, c) ==
    IF Len(a) = 0 THEN (IF c = 0 THEN <<>> ELSE <<c>>)
    ELSE LET t == Head(a) * k + c
         IN  <<t % Base>> \o BMulSmallC(Tail(a), k, t \div Base)

\* the sum of the products a[i] * b[k + 1 - i] for i in lo..hi: the digit k of
\* a * b before the carries (at most 4 digits each: the sum is below 2^31)
RECURSIVE ColSum(_, _, _, _, _)
ColSum(a, b, k, lo, hi) ==
    IF lo > hi THEN 0
    ELSE a[lo] * b[k + 1 - lo] + ColSum(a, b, k, lo + 1, hi)

RECURSIVE BCarry(_, _)
BCarry(cols, c) ==
    IF Len(cols) = 0 THEN BFromInt(c)
    ELSE LET t == Head(cols) + c
         IN  <<t % Base>> \o BCarry(Tail(cols), t \div Base)

BMul(a, b) ==
    IF Len(a) = 0 \/ Len(b) = 0 THEN <<>>
    ELSE BCarry([k \in 1..(Len(a) + Len(b) - 1) |->
                   ColSum(a, b, k,
                          IF k > Len(b) THEN k + 1 - Len(b) ELSE 1,
                          IF k < Len(a) THEN k ELSE Len(a))], 0)

\* a * 2^k
BShl(a, k) ==
    IF Len(a) = 0 \/ k = 0 THEN a
    ELSE [i \in 1..(k \div LimbBits) |-> 0]
           \o BMulSmallC(a, 2 ^ (k % LimbBits), 0)

\* floor(a / 2^k)
BShr(a, k) ==
    IF k = 0 THEN a ELSE
    LET n == k \div LimbBits
        p == 2 ^ (k % LimbBits)
        rest == IF n >= Len(a) THEN <<>> ELSE SubSeq(a, n + 1, Len(a))
    IN  BNorm([i \in 1..Len(rest) |->
                 (rest[i] \div p)
                   + (IF i < Len(rest) THEN (rest[i + 1] % p) * (Base \div p)
                      ELSE 0)])

\* quotient and remainder of a by one digit d
RECURSIVE BDivRem(_, _)
BDivRem(a, d) ==
    IF Len(a) = 0 THEN [q |-> <<>>, r |-> 0]
    ELSE LET hi == BDivRem(Tail(a), d)
             cur == hi.r * Base + Head(a)
         IN  [q |-> <<cur \div d>> \o hi.q, r |-> cur % d]

\* number of binary digits of x
RECURSIVE Bits(_)
Bits(x) == IF x = 0 THEN 0 ELSE 1 + Bits(x \div 2)

BitLen(a) ==
    IF Len(a) = 0 THEN 0 ELSE LimbBits * (Len(a) - 1) + Bits(a[Len(a)])

\* number of trailing zero bits of a > 0
RECURSIVE TzInt(_)
TzInt(x) == IF x % 2 = 1 THEN 0 ELSE 1 + TzInt(x \div 2)

RECURSIVE Tz(_)
Tz(a) == IF a[1] = 0 THEN LimbBits + Tz(Tail(a)) ELSE TzInt(a[1])

\* A double is kept in one of two forms, which makes the record of a number
\* unique: [h |-> n] is n / 2 for an integer n below 2^29 in magnitude (the
\* timestamps of the script, their differences and midpoints), and every
\* other number is [s, m, e], s * m * 2^e with s the sign (-1, 1) and m odd.
\* Exponent overflow and underflow, infinities, NaN and the sign of zero do
\* not occur for the millisecond values of the script.
MantBits == 53

DZero == [h |-> 0]

IsHalves(x) == "h" \in DOMAIN x
FitsHalves(n) == -536870912 < n /\ n < 536870912

\* the form [s, m, e] of the number i * 2^e, i # 0 below 2^31 in magnitude
DWide(i, e) ==
    LET t == TzInt(Abs(i))
    IN  [s |-> IF i < 0 THEN -1 ELSE 1,
         m |-> BFromInt(Abs(i) \div (2 ^ t)),
         e |-> e + t]

\* the form [s, m, e] of a double that is not 0
Wide(x) == IF IsHalves(x) THEN DWide(x.h, -1) ELSE x

\* the sign of a double
Sign(x) ==
    IF IsHalves(x) THEN (IF x.h < 0 THEN -1 ELSE IF x.h > 0 THEN 1 ELSE 0)
    ELSE x.s

\* the double s * m * 2^e, which needs no rounding
DCanon(s, m, e) ==
    IF Len(m) = 0 THEN DZero
    ELSE LET t == Tz(m)
             o == BShr(m, t)
             f == e + t
         IN  IF f >= -1 /\ BitLen(o) + f + 1 <= 29
             THEN [h |-> s * (IF Len(o) = 1 THEN o[1]
                              ELSE IF Len(o) = 2 THEN o[1] + Base * o[2]
                              ELSE o[1] + Base * (o[2] + Base * o[3]))
                            * (2 ^ (f + 1))]
             ELSE [s |-> s, m |-> o, e |-> f]

\* -1, 0 or 1 as the low k bits of m (k > 0) are below, equal to or above
\* 2^(k-1): the bit k-1 of m and whether a lower bit is set
CmpHalf(m, k) ==
    LET n == (k - 1) \div LimbBits
        p == 2 ^ ((k - 1) % LimbBits)
    IN  IF (m[n + 1] \div p) % 2 = 0 THEN -1
        ELSE IF m[n + 1] % p # 0 \/ (\E i \in 1..n : m[i] # 0) THEN 1
        ELSE 0

\* s * m * 2^e rounded to the nearest double, ties to the even mantissa
DRound(s, m, e) ==
    LET k == BitLen(m) - MantBits
    IN  IF k <= 0 THEN DCanon(s, m, e)
        ELSE LET q == BShr(m, k)
                 c == CmpHalf(m, k)
                 up == c > 0 \/ (c = 0 /\ q[1] % 2 = 1)
             IN  DCanon(s, IF up THEN BAdd(q, <<1>>) ELSE q, e + k)

\* the double of n / 2 (n below 2^31 in magnitude: exact)
DHalves(n) == IF FitsHalves(n) THEN [h |-> n] ELSE DWide(n, -1)

\* the double of an integer (below 2^28 in magnitude)
Num(i) == [h |-> 2 * i]

\* the double a decimal literal n/d denotes (0 < n, 0 < d < 2^14): the
\* quotient to 70 fraction bits and a bit that tells whether it is exact
DLiteral(n, d) ==
    LET qr == BDivRem(BShl(BFromInt(n), 70), d)
        q2 == BShl(BNorm(qr.q), 1)
    IN  DRound(1, IF qr.r = 0 THEN q2 ELSE BAdd(q2, <<1>>), -71)

DNeg(x) == IF IsHalves(x) THEN [h |-> -x.h] ELSE [x EXCEPT !.s = -x.s]
DAbs(x) == IF IsHalves(x) THEN [h |-> Abs(x.h)] ELSE [x EXCEPT !.s = 1]

\* x + y: exact in machine integers for two numbers of the form [h |-> n]
DAdd(x, y) ==
    IF IsHalves(x) /\ IsHalves(y) THEN DHalves(x.h + y.h)
    ELSE IF x = DZero THEN y
    ELSE IF y = DZero THEN x
    ELSE LET u == Wide(x)
             v == Wide(y)
             e == IF u.e < v.e THEN u.e ELSE v.e
             a == BShl(u.m, u.e - e)
             b == BShl(v.m, v.e - e)
             c == BCmp(a, b)
         IN  IF u.s = v.s THEN DRound(u.s, BAdd(a, b), e)
             ELSE IF c = 0 THEN DZero
             ELSE IF c > 0 THEN DRound(u.s, BSub(a, b), e)
             ELSE DRound(v.s, BSub(b, a), e)

\* x - y
DSub(x, y) == DAdd(x, DNeg(y))

\* x * y
DMul(x, y) ==
    IF x = DZero \/ y = DZero THEN DZero
    ELSE LET u == Wide(x)
             v == Wide(y)
         IN  DRound(u.s * v.s, BMul(u.m, v.m), u.e + v.e)

\* x / 2
DHalf(x) ==
    IF IsHalves(x) /\ x.h % 2 = 0 THEN [h |-> x.h \div 2]
    ELSE LET u == Wide(x) IN DCanon(u.s, u.m, u.e - 1)

\* x < y, x <= y: rounding a difference does not change its sign
DLess(x, y) ==
    IF IsHalves(x) /\ IsHalves(y) THEN x.h < y.h ELSE Sign(DSub(x, y)) < 0
DLeq(x, y) ==
    IF IsHalves(x) /\ IsHalves(y) THEN x.h <= y.h ELSE Sign(DSub(x, y)) <= 0

\* maximum of two integers (Math.max)
Max(a, b) == IF a > b THEN a ELSE b

\* minimum of two integers (slice stops at the end of the array)
Min(a, b) == IF a < b THEN a ELSE b

\* ------------------------------------------------------------- makeEWMA
\* makeEWMA(alpha): val = init = 0, has = seeded = false
EwmaInit == [val |-> Num(0), has |-> FALSE]

\* update(x): val = has ? alpha*x + (1-alpha)*val : x; has = true
EwmaUpdate(e, alpha, x) ==
    [val |-> IF e.has
             THEN DAdd(DMul(alpha, x), DMul(DSub(Num(1), alpha), e.val))
             ELSE x,
     has |-> TRUE]

\* smoothing factors of rttEwma and offsetEwma: 0.3 and 0.2
AlphaRtt == DLiteral(3, 10)
AlphaOffset == DLiteral(2, 10)

\* ----------------------------------------------------- syncClock.finish
\* results.sort((a,b) => a.rtt - b.rtt): Array.prototype.sort is stable
RECURSIVE InsertByRtt(_, _)
InsertByRtt(sorted, x) ==
    IF sorted = <<>> THEN <<x>>
    ELSE IF DLess(x.rtt, sorted[Len(sorted)].rtt)
         THEN Append(InsertByRtt(SubSeq(sorted, 1, Len(sorted) - 1), x),
                     sorted[Len(sorted)])
         ELSE Append(sorted, x)

RECURSIVE SortByRtt(_)
SortByRtt(rs) ==
    IF rs = <<>> THEN <<>>
    ELSE InsertByRtt(SortByRtt(SubSeq(rs, 1, Len(rs) - 1)), rs[Len(rs)])

\* (mutation of Best: every round is used)
BestAll(sorted) == sorted

\* results.slice(0, Math.max(1, Math.floor(results.length/2)))
Best(sorted) ==
    SubSeq(sorted, 1, Min(Len(sorted), Max(1, Len(sorted) \div 2)))

\* best.map(x => x.offset).sort((a,b) => a-b)
RECURSIVE InsertNum(_, _)
InsertNum(sorted, x) ==
    IF sorted = <<>> THEN <<x>>
    ELSE IF DLess(x, sorted[Len(sorted)])
         THEN Append(InsertNum(SubSeq(sorted, 1, Len(sorted) - 1), x),
                     sorted[Len(sorted)])
         ELSE Append(sorted, x)

RECURSIVE SortNums(_)
SortNums(xs) ==
    IF xs = <<>> THEN <<>>
    ELSE InsertNum(SortNums(SubSeq(xs, 1, Len(xs) - 1)), xs[Len(xs)])

Offsets(best) == SortNums([i \in 1..Len(best) |-> best[i].offset])

\* (mutation of Median: the smallest offset)
MedianFirst(offsets) == offsets[1]

\* offsets[Math.floor(offsets.length/2)]
Median(offsets) == offsets[(Len(offsets) \div 2) + 1]

\* ------------------------------------------------------------ syncClock
\* syncClock(8) of ws.onopen, syncClock(2) of ws.onmessage, the default
\* timeout of syncClock and the drift threshold of ws.onmessage
FullBatch == 8
ShortBatch == 2
SyncTimeout == 500
DriftMs == 80

\* location.hostname, which the page sends as its "ip": the device's address
Host == <<10, 0, 0, 1>>

\* JSON.stringify({type:'sync', t0}) and JSON.stringify({type:'hello', ip})
SyncRequest(t0) == Msg({"sync"}, FALSE, <<>>, TRUE, t0 * 10000, "", <<>>)
Hello(ip) == Msg({"hello"}, TRUE, ip, FALSE, 0, "", <<>>)

\* the number a uint32 is printed as by "%lu"
ToNum(u) == u.hi * W16 + u.lo

\* the state of the page, as one record
Cli ==
    [batches |-> batches, listeners |-> listeners, timers |-> timers,
     toDev |-> toDev, rttEwma |-> rttEwma, offsetEwma |-> offsetEwma,
     pushes |-> <<>>, folds |-> <<>>]

SetCli(st) ==
    /\ batches' = st.batches
    /\ listeners' = st.listeners
    /\ timers' = st.timers
    /\ toDev' = st.toDev
    /\ rttEwma' = st.rttEwma
    /\ offsetEwma' = st.offsetEwma
    /\ pushes' = st.pushes
    /\ folds' = st.folds

\* the locals of one syncClock call
NewBatch(samples) ==
    [samples |-> samples, pending |-> 0, results |-> <<>>, tries |-> 0,
     fin |-> 0, resolved |-> FALSE]

\* tryOnce of batch b at time t
tryOnce(st, b, t) ==
    LET k == st.batches[b].tries + 1
    IN  [st EXCEPT !.toDev = Append(@, SyncRequest(t)),
                   !.batches[b].pending = @ + 1,
                   !.batches[b].tries = k,
                   !.timers = @ \cup {[b |-> b, k |-> k, due |-> t + SyncTimeout]},
                   !.listeners = Append(@, [b |-> b, k |-> k, t0 |-> t])]

\* finish of batch b.  With no result best[0] is undefined and best[0].rtt
\* throws before either estimate is updated.
finish(st, b) ==
    LET sorted == SortByRtt(st.batches[b].results)
        best == Best(sorted)
        offsets == Offsets(best)
    IN  IF best = <<>>
        THEN [st EXCEPT !.batches[b].fin = @ + 1]
        ELSE [st EXCEPT
                !.batches[b].results = sorted,
                !.batches[b].fin = @ + 1,
                !.batches[b].resolved = TRUE,
                !.rttEwma = EwmaUpdate(@, AlphaRtt, best[1].rtt),
                !.offsetEwma = EwmaUpdate(@, AlphaOffset, Median(offsets)),
                !.folds = Append(@, [b |-> b, used |-> sorted,
                                     rtt |-> best[1].rtt,
                                     offset |-> Median(offsets),
                                     before |-> <<st.rttEwma, st.offsetEwma>>])]

\* (mutation of RoundOffset: the reply is taken to arrive when it was sent)
RoundOffsetNoRtt(t0, tA, t1) == DSub(Num(t0), Num(t1))

\* ((t0 + tA) / 2) - t1
RoundOffset(t0, tA, t1) == DSub(DHalf(DAdd(Num(t0), Num(tA))), Num(t1))

\* tA - t0
RoundRtt(t0, tA) == DSub(Num(tA), Num(t0))

\* the timeout callback of the round l has run: its timer is gone while its
\* listener is still registered (clearTimeout(to) then has no effect)
TimedOut(st, l) == \A x \in st.timers : ~(x.b = l.b /\ x.k = l.k)

\* onMsg of the round l = [b, k, t0] on a sync reply d dispatched at time t
onMsg(st, l, d, t) ==
    LET b == l.b
        t1 == ToNum(d.t1_ms)
        res == [rtt |-> RoundRtt(l.t0, t), offset |-> RoundOffset(l.t0, t, t1)]
        s1 == [st EXCEPT
                 !.listeners = SelectSeq(@, LAMBDA x : x # l),
                 !.timers = {x \in @ : ~(x.b = b /\ x.k = l.k)},
                 !.batches[b].results = Append(@, res),
                 !.batches[b].pending = @ - 1,
                 !.pushes = Append(@, [b |-> b, k |-> l.k, t0 |-> l.t0,
                                       tA |-> t, t1 |-> t1, res |-> res,
                                       late |-> TimedOut(st, l),
                                       echo |-> d.t0])]
    IN  IF Len(s1.batches[b].results) < s1.batches[b].samples
        THEN tryOnce(s1, b, t)
        ELSE IF s1.batches[b].pending = 0 THEN finish(s1, b) ELSE s1

\* the listeners that were registered when the dispatch started run in order
RECURSIVE dispatch(_, _, _, _)
dispatch(st, ls, d, t) ==
    IF ls = <<>> THEN st
    ELSE dispatch(onMsg(st, Head(ls), d, t), Tail(ls), d, t)

\* syncClock(samples) called at time t
syncClock(st, samples, t) ==
    tryOnce([st EXCEPT !.batches = Append(@, NewBatch(samples))],
            Len(st.batches) + 1, t)

\* (mutation of Drifted: the smoothed offset is left out of the estimate)
DriftedNoOffset(st, d, t) ==
    DLess(Num(DriftMs), DAbs(DSub(Num(t), Num(ToNum(d.t)))))

\* Math.abs(estOneWayMs) > 80, estOneWayMs = recvAt - (d.t + offsetEwma.get())
Drifted(st, d, t) ==
    DLess(Num(DriftMs),
          DAbs(DSub(Num(t), DAdd(Num(ToNum(d.t)), st.offsetEwma.val))))

\* ws.onmessage on the message d at time t
onmessage(st, d, t) ==
    IF d.type \in {"ack", "sync"} THEN st
    ELSE IF Drifted(st, d, t) THEN syncClock(st, ShortBatch, t) ELSE st

\* (mutation of TimeoutFinishes: finish also without any result)
TimeoutFinishesEmpty(pending, results) == pending = 0

\* pending===0 && results.length>=1 of the timeout callback
TimeoutFinishes(pending, results) == pending = 0 /\ Len(results) >= 1

\* the setTimeout callback of round tm = [b, k, due]
onTimeout(st, tm) ==
    LET s1 == [st EXCEPT !.timers = @ \ {tm},
                         !.batches[tm.b].pending = @ - 1]
    IN  IF TimeoutFinishes(s1.batches[tm.b].pending, s1.batches[tm.b].results)
        THEN finish(s1, tm.b)
        ELSE s1

\* ------------------------------------------------- the page and the device
\* number of syncClock calls in one run
MaxBatches == 2
\* number of clock steps in one run
MaxTicks == 2
\* number of sync requests sent in one run
MaxRounds == 3
\* number of frames the device emits in one run
MaxSyncFrames == MaxBatches - 1

RECURSIVE Tries(_)
Tries(bs) == IF bs = <<>> THEN 0 ELSE bs[Len(bs)].tries + Tries(SubSeq(bs, 1, Len(bs) - 1))

\* ws.onopen: send hello, then syncClock(8)
ClientOpen ==
    /\ wsState = "connecting" /\ accepted /\ 0 \in connected
    /\ wsState' = "open"
    /\ SetCli(syncClock([Cli EXCEPT !.toDev = Append(@, Hello(Host))],
                        FullBatch, now))
    /\ UNCHANGED <<lastOp, clock, usClock, lastClientIP, seqNo, lastSend, idx, logFile,
                   currentLogName, connected, wsOut, udpOut, logOut, helloSeen,
                   udpCount, frames, lastHello, elapsed, run, nMsgs, now,
                   ticks, toCli, accepted>>

\* one message event on ws: ws.onmessage, then the onMsg listeners
wsMessage ==
    /\ wsState = "open" /\ toCli # <<>>
    /\ LET d == Head(toCli)
           s1 == onmessage(Cli, d, now)
       IN  SetCli(IF d.type = "sync" THEN dispatch(s1, listeners, d, now) ELSE s1)
    /\ toCli' = Tail(toCli)
    /\ UNCHANGED <<lastOp, clock, usClock, lastClientIP, seqNo, lastSend, idx, logFile,
                   currentLogName, connected, wsOut, udpOut, logOut, helloSeen,
                   udpCount, frames, lastHello, elapsed, run, nMsgs, now,
                   wsState, ticks, accepted>>

\* a message event within the bounds of a run
ClientRecv ==
    /\ wsMessage
    /\ Len(batches') <= MaxBatches
    /\ Tries(batches') <= MaxRounds

\* a timer whose time has come runs its callback
ClientTimeout(tm) ==
    /\ tm \in timers /\ now >= tm.due
    /\ tm.b > 0
    /\ SetCli(onTimeout(Cli, tm))
    /\ UNCHANGED <<lastOp, clock, usClock, lastClientIP, seqNo, lastSend, idx, logFile,
                   currentLogName, connected, wsOut, udpOut, logOut, helloSeen,
                   udpCount, frames, lastHello, elapsed, run, nMsgs, now,
                   wsState, ticks, toCli, accepted>>

\* setTimeout(openWS, 1000) of ws.onclose
ReopenDelay == 1000

\* ws.onclose schedules openWS; the timer is kept with those of the rounds,
\* under the batch number 0.  The listeners of the rounds stay on the closed
\* socket, which delivers no further message.
onclose(st, t) ==
    [st EXCEPT !.timers = @ \cup {[b |-> 0, k |-> 0, due |-> t + ReopenDelay]},
               !.listeners = <<>>]

\* The socket of the page closes, open or still connecting: the page runs
\* ws.onclose.  The server learns of it in a step of its own: until then it
\* handles what the page had sent and keeps sending to the connection.
ClientClose ==
    /\ wsState \in {"connecting", "open"}
    /\ wsState' = "closed"
    /\ SetCli(onclose(Cli, now))
    /\ accepted' = FALSE
    /\ UNCHANGED <<lastOp, clock, usClock, lastClientIP, seqNo, lastSend, idx, logFile,
                   currentLogName, connected, wsOut, udpOut, logOut, helloSeen,
                   udpCount, frames, lastHello, elapsed, run, nMsgs, now,
                   ticks, toCli>>

\* the timer of ws.onclose runs openWS: a new socket is being connected
ClientReopen(tm) ==
    /\ tm \in timers /\ now >= tm.due
    /\ tm.b = 0
    /\ wsState' = "connecting"
    /\ SetCli([Cli EXCEPT !.timers = @ \ {tm}])
    /\ UNCHANGED <<lastOp, clock, usClock, lastClientIP, seqNo, lastSend, idx, logFile,
                   currentLogName, connected, wsOut, udpOut, logOut, helloSeen,
                   udpCount, frames, lastHello, elapsed, run, nMsgs, now,
                   ticks, toCli, accepted>>

\* the bodies of the messages of out that go to client 0
Deliver(out) ==
    LET sel == SelectSeq(out, LAMBDA x : 0 \in x.to)
    IN  [i \in 1..Len(sel) |-> sel[i].body]

\* the server accepts the connection of the page's socket: a new
\* connection, on which nothing has been sent yet
DevConnect ==
    /\ wsState = "connecting" /\ ~accepted
    /\ wsEventOther(0, "CONNECTED")
    /\ accepted' = TRUE
    /\ toDev' = <<>> /\ toCli' = <<>>
    /\ UNCHANGED <<nMsgs, cliVars>>

\* the server finds the connection of the page gone (WStype_DISCONNECTED):
\* wsEvent does nothing, the library drops the client
DevDisconnect ==
    /\ wsEventOther(0, "DISCONNECTED")
    /\ accepted' = FALSE
    /\ UNCHANGED <<nMsgs, cliVars, toDev, toCli>>

\* ws.loop() hands the next text of the page to wsEvent
DevRecv ==
    /\ toDev # <<>>
    /\ wsEvent(0, Head(toDev), TRUE)
    /\ toDev' = Tail(toDev)
    /\ toCli' = toCli \o Deliver(wsOut')
    /\ UNCHANGED <<nMsgs, cliVars, accepted>>

DevLoop(read, d, g) ==
    /\ ToNum(seqNo) < MaxSyncFrames
    /\ Due(clock, lastSend)
    /\ loop(read, d, g)
    /\ toCli' = toCli \o Deliver(wsOut')
    /\ UNCHANGED <<nMsgs, cliVars, toDev, accepted>>

\* both clocks advance together
Tick(dt) ==
    /\ ticks < MaxTicks
    /\ ticks' = ticks + 1
    /\ now' = now + dt
    /\ AdvanceClock(dt)
    /\ UNCHANGED <<nMsgs, wsState, batches, listeners, timers, rttEwma,
                   offsetEwma, pushes, folds, chanVars>>

SyncSteps == {25, 500}

\* performance.now() when the socket opens, and millis() at that moment
PageStart == 1000
DevStart == 995

\* the page has been loaded and openWS() has run; nothing is connected yet
InitPage ==
    /\ wsState = "connecting"
    /\ batches = <<>>
    /\ listeners = <<>>
    /\ timers = {}
    /\ rttEwma = EwmaInit
    /\ offsetEwma = EwmaInit
    /\ toDev = <<>> /\ toCli = <<>>
    /\ accepted = FALSE
    /\ pushes = <<>> /\ folds = <<>>
    /\ ticks = 0

\* ------------------------------------------- specification of the device
WsText(num, m, ok) ==
    /\ nMsgs < MaxMsgs
    /\ nMsgs' = nMsgs + 1
    /\ wsEvent(num, m, ok)
    /\ UNCHANGED <<cliVars, chanVars>>

WsOther(num, type) ==
    /\ wsEventOther(num, type)
    /\ UNCHANGED <<nMsgs, cliVars, chanVars>>

Loop(read, d, g) ==
    /\ loop(read, d, g)
    /\ UNCHANGED <<nMsgs, cliVars, chanVars>>

Clock(dt) ==
    /\ run + dt <= MaxRun
    /\ AdvanceClock(dt)
    /\ UNCHANGED <<nMsgs, cliVars, chanVars>>

InitDev ==
    /\ InitBoot \/ InitAged
    /\ InitGlobals
    /\ logFile \in BOOLEAN
    /\ InitPage
    /\ now = 0

NextDev ==
    \/ \E num \in Clients, m \in TextMsgs, ok \in BOOLEAN :
          /\ ok \/ Branch(m) = "rotate"
          /\ WsText(num, m, ok)
    \/ \E num \in Clients, type \in {"CONNECTED", "DISCONNECTED", "BIN"} :
          WsOther(num, type)
    \/ \E read \in BOOLEAN, d \in Samples, g \in ProcUs : Loop(read, d, g)
    \/ \E dt \in ClockSteps : Clock(dt)

Init == InitDev

Next == NextDev

Spec == Init /\ [][Next]_vars

\* ------------------------------- specification of the page and the device
\* millis() when the page opens its socket: 5 ms behind the page's clock, or
\* a device that has just booted
DevStarts == {DevStart, BootMs}

InitSync ==
    /\ \E d \in DevStarts :
          /\ clock = Mk32(0, d)
          /\ usClock = Add32(Zero32, d * 1000)
          /\ elapsed = d
    /\ seqNo = Zero32
    /\ lastSend = Zero32
    /\ frames = <<>>
    /\ InitGlobals
    /\ logFile = TRUE
    /\ InitPage
    /\ now = PageStart

NextSync ==
    \/ DevConnect
    \/ ClientOpen
    \/ ClientRecv
    \/ \E tm \in timers : ClientTimeout(tm)
    \/ DevRecv
    \/ \E d \in Samples : DevLoop(TRUE, d, 0)
    \/ \E dt \in SyncSteps : Tick(dt)

SpecSync == InitSync /\ [][NextSync]_vars

\* ------------------------- specification of sessions without telemetry
\* The device emits no frame, so the page runs the batch of ws.onopen alone,
\* to its end; the connection may close, on either side first, and the page
\* then opens another.
NextBatch ==
    \/ DevConnect
    \/ ClientOpen
    \/ wsMessage
    \/ \E tm \in timers : ClientTimeout(tm)
    \/ DevRecv
    \/ \E dt \in SyncSteps : Tick(dt)
    \/ ClientClose
    \/ DevDisconnect
    \/ \E tm \in timers : ClientReopen(tm)

SpecBatch == InitSync /\ [][NextBatch]_vars

\* -------------------- specification of one session with prompt delivery
\* No time passes: every request, reply and frame is handled before any
\* timer is due, and the batches run until they have all their results.
NextPrompt ==
    \/ DevConnect
    \/ ClientOpen
    \/ wsMessage
    \/ DevRecv
    \/ \E d \in Samples : DevLoop(TRUE, d, 0)

SpecPrompt == InitSync /\ [][NextPrompt]_vars

\* ------------------------------------ specification of the end of a batch
\* The page is in the middle of its first batch: some rounds have completed
\* and one is outstanding.  The completed rounds are drawn from small sets.
\* number of completed rounds of a batch whose outstanding round times out
MaxResults == 3

\* round-trip times and offsets of the completed rounds, in ms
RttVals == {40, 48}
OffVals == {3, 5, 9}

\* the eight round-trip times of the worked example, the offsets its four
\* fastest rounds are drawn from, and the offsets of its four slowest rounds
ExampleRtts == <<40, 42, 45, 48, 50, 60, 70, 200>>
ExampleOffs == {1, 3, 5, 9}
SlowOffs == <<20, 25, 30, 100>>

\* the orders in which the eight rounds completed
Orders ==
    {<<1, 2, 3, 4, 5, 6, 7, 8>>, <<8, 7, 6, 5, 4, 3, 2, 1>>,
     <<5, 3, 8, 1, 7, 2, 6, 4>>}

Result(rtt, offset) == [rtt |-> Num(rtt), offset |-> Num(offset)]

\* estimates of a page that has not synchronised yet, or has once
Seeds == {<<EwmaInit, EwmaInit>>,
          <<[val |-> Num(40), has |-> TRUE], [val |-> Num(7), has |-> TRUE]>>}

\* the device has handled the hello of the page and has emitted nothing
InitServing ==
    /\ clock = Mk32(0, DevStart)
    /\ usClock = Add32(Zero32, DevStart * 1000)
    /\ seqNo = Zero32
    /\ lastSend = Zero32
    /\ frames = <<>>
    /\ elapsed = DevStart
    /\ lastClientIP = HelloEndpoint(NoIP, Hello(Host))
    /\ helloSeen = TRUE
    /\ lastHello = <<Hello(Host)>>
    /\ connected = {0}
    /\ accepted = TRUE
    /\ idx = 1
    /\ currentLogName = 0
    /\ logFile = TRUE
    /\ wsOut = <<>> /\ udpOut = <<>> /\ logOut = <<>>
    /\ lastOp = Op("init", 0, NoMsg, FALSE)
    /\ udpCount = 0
    /\ run = 0
    /\ nMsgs = 0
    /\ now = PageStart
    /\ wsState = "open"
    /\ pushes = <<>> /\ folds = <<>>
    /\ ticks = 0
    /\ \E sd \in Seeds : rttEwma = sd[1] /\ offsetEwma = sd[2]

\* the outstanding round of rs timed out: its request is still on its way
InitTimedOut ==
    \E n \in 1..MaxResults :
      \E rs \in [1..n -> {Result(r, o) : r \in RttVals, o \in OffVals}] :
        /\ batches = <<[NewBatch(FullBatch) EXCEPT
                          !.results = rs, !.pending = 1, !.tries = n + 1]>>
        /\ listeners = <<[b |-> 1, k |-> n + 1, t0 |-> now - SyncTimeout]>>
        /\ timers = {[b |-> 1, k |-> n + 1, due |-> now]}
        /\ toDev = <<SyncRequest(now - SyncTimeout)>>
        /\ toCli = <<>>

\* seven rounds of the worked example have completed and the reply of the
\* eighth is about to be handled
InitExample ==
    \E ord \in Orders, fast \in [1..4 -> ExampleOffs] :
      LET off(i) == IF i <= 4 THEN fast[i] ELSE SlowOffs[i - 4]
          round(i) == Result(ExampleRtts[i], off(i))
          last == ord[8]
          t0 == now - ExampleRtts[last]
          t1 == ((t0 + now) \div 2) - off(last)
      IN  /\ batches = <<[NewBatch(FullBatch) EXCEPT
                            !.results = [i \in 1..7 |-> round(ord[i])],
                            !.pending = 1, !.tries = 8]>>
          /\ listeners = <<[b |-> 1, k |-> 8, t0 |-> t0]>>
          /\ timers = {[b |-> 1, k |-> 8, due |-> t0 + SyncTimeout]}
          /\ toDev = <<>>
          /\ toCli = <<SyncReply(SyncRequest(t0), Mk32(0, t1))>>

InitFinish ==
    /\ InitServing
    /\ InitTimedOut \/ InitExample

NextFinish ==
    \/ wsMessage
    \/ \E tm \in timers : ClientTimeout(tm)
    \/ \E dt \in SyncSteps : Tick(dt)

SpecFinish == InitFinish /\ [][NextFinish]_vars

\* ================================================================ claims
\* the last step was wsEvent on a text payload / emitted a frame
TextHandled == lastOp.op = "text"
Emitted == lastOp.op = "loop" /\ wsOut # <<>>

\* C1: as long as no handled text contained the hello tag, no datagram has
\* been sent, whatever was emitted on the control channel and whatever other
\* control messages were handled.
C1_NoHelloNoDatagram ==
    ~helloSeen => (udpCount = 0 /\ udpOut = <<>>)

C1_Witness ==
    /\ ~helloSeen /\ udpCount = 0
    /\ Emitted /\ Len(frames) = 2
    /\ nMsgs = MaxMsgs
    /\ currentLogName # 0

\* C2 (as claimed): a text payload that is none of hello, sync, rotate or
\* event gets no reply, appends nothing to the log and changes neither the
\* endpoint, the log session, seqNo nor the set of connections.
C2_UnknownIgnored ==
    [][(lastOp'.op = "text" /\ lastOp'.msg \in UnknownMsgs)
         => /\ wsOut' = <<>>
            /\ logOut' = <<>>
            /\ UNCHANGED <<lastClientIP, idx, logFile, currentLogName, seqNo,
                           connected>>]_vars

\* C3 (as claimed): the reply to a SyncRequest carries the request's t0.
IsSyncRequest(m) == m \in SyncMsgs /\ m.hasT0

C3_ReplyCarriesT0 ==
    (TextHandled /\ IsSyncRequest(lastOp.msg))
        => /\ Len(wsOut) = 1
           /\ wsOut[1].body.type = "sync"
           /\ wsOut[1].body.t0 = lastOp.msg.t0

\* C3 (amended): handling a SyncRequest sends exactly one message, a
\* SyncReply, to the sender alone, in that same step; its t1 is the device
\* clock of the step and its t0 is the request's t0 rounded to three decimals;
\* nothing else is sent or written and no other device state changes.
C3_SyncReply ==
    [][(lastOp'.op = "text" /\ IsSyncRequest(lastOp'.msg))
         => /\ Len(wsOut') = 1
            /\ wsOut'[1].to = {lastOp'.num}
            /\ wsOut'[1].body.type = "sync"
            /\ wsOut'[1].body.t1_ms = clock
            /\ wsOut'[1].body.t0 % 10 = 0
            /\ wsOut'[1].body.t0 - lastOp'.msg.t0 \in -5..5
            /\ udpOut' = <<>> /\ logOut' = <<>>
            /\ UNCHANGED <<clock, lastClientIP, idx, logFile, currentLogName,
                           seqNo, lastSend, connected>>]_vars

C3_Witness ==
    /\ TextHandled /\ lastOp.msg.tags = {"sync"} /\ lastOp.msg.t0 = 10001236
    /\ wsOut = <<[to |-> {lastOp.num},
                  body |-> [type |-> "sync", t0 |-> 10001240, t1_ms |-> clock]]>>
    /\ lastOp.num = 1 /\ connected = Clients
    /\ Len(frames) > 0 /\ lastSend # clock

\* a < b as unsigned numbers
Lt32(a, b) == a.hi < b.hi \/ (a.hi = b.hi /\ a.lo < b.lo)

\* C4 (as claimed): of two successive emitted frames the later has the
\* strictly larger seq.
C4_StrictlyIncreasing ==
    Len(frames) = 2 => Lt32(frames[1].seq, frames[2].seq)

\* C4 (amended): the seq of each emitted frame is the seq of the previous one
\* plus 1 modulo 2^32 (after 4294967295 comes 0); seqNo is the seq of the last
\* emitted frame, and it changes in no step but an emission.
C4_SeqPlusOne ==
    /\ [](/\ Len(frames) = 2 => frames[2].seq = Add32(frames[1].seq, 1)
          /\ Len(frames) > 0 => frames[Len(frames)].seq = seqNo
          /\ Emitted => wsOut[1].body.seq = seqNo)
    /\ [][~(lastOp'.op = "loop" /\ wsOut' # <<>>) => seqNo' = seqNo]_vars

C4_Witness ==
    /\ Emitted /\ Len(frames) = 2
    /\ frames[1].seq = Max32 /\ frames[2].seq = Zero32

\* C5: handling a hello that carries an address makes that address the
\* registered endpoint, whatever was registered before, and sends exactly one
\* ack "hello" to the sender; every datagram goes to the one endpoint
\* registered when it is sent.
IsHello(m) == m \in HelloMsgs /\ m.hasIp /\ m.ip \in Addrs

C5_HelloRegisters ==
    /\ [][(lastOp'.op = "text" /\ IsHello(lastOp'.msg))
            => /\ lastClientIP' = lastOp'.msg.ip
               /\ wsOut' = <<[to |-> {lastOp'.num}, body |-> Ack("hello")]>>]_vars
    /\ [](/\ Len(udpOut) <= 1
          /\ \A i \in 1..Len(udpOut) : udpOut[i].dst = lastClientIP
          /\ Emitted => frames[Len(frames)].dst = lastClientIP)

C5_Witness ==
    /\ Emitted /\ Len(frames) = 2
    /\ frames[1].dst = <<10, 0, 0, 7>>
    /\ lastHello = <<Msg({"hello"}, TRUE, <<10, 0, 0, 9>>, FALSE, 0, "", <<>>)>>
    /\ udpOut # <<>> /\ udpOut[1].dst = <<10, 0, 0, 9>>

\* C6: handling a hello with an address when the hello handled before it was
\* the same one changes nothing that a later send reads: the endpoint, seqNo,
\* lastSend and the clocks are what they were.
C6_HelloIdempotent ==
    [][(lastOp'.op = "text" /\ IsHello(lastOp'.msg) /\ lastHello = <<lastOp'.msg>>)
         => /\ lastClientIP' = lastClientIP
            /\ UdpEnabled(lastClientIP') = UdpEnabled(lastClientIP)
            /\ UNCHANGED <<seqNo, lastSend, clock, usClock>>
            /\ udpOut' = <<>>]_vars

C6_Witness ==
    /\ TextHandled /\ IsHello(lastOp.msg) /\ lastOp.msg.ip = <<10, 0, 0, 7>>
    /\ nMsgs = 2
    /\ lastHello = <<lastOp.msg>>
    /\ lastClientIP = <<10, 0, 0, 7>>
    /\ Len(frames) > 0 /\ frames[Len(frames)].dst = <<10, 0, 0, 7>>

\* C7: a sample that was read is emitted exactly when 16 ms or more have
\* truly passed since lastSend was assigned; an emission sets lastSend to the
\* clock; the t_ms of two successive frames are 16 or more apart modulo 2^32;
\* this is so across the wrap of the 32-bit millisecond clock.
C7_RateLimiter ==
    /\ [][lastOp'.op = "loop"
            => /\ (wsOut' # <<>>) = (lastOp'.read /\ elapsed >= TargetPeriod)
               /\ (wsOut' # <<>>) => (lastSend' = clock /\ wsOut'[1].body.t = clock)
               /\ (wsOut' = <<>>) => lastSend' = lastSend]_vars
    /\ [](Len(frames) = 2 => Ge32(Sub32(frames[2].t, frames[1].t), TargetPeriod))

C7_Witness ==
    /\ Emitted /\ Len(frames) = 2
    /\ frames[1].t.hi = W16 - 1 /\ frames[2].t.hi = 0
    /\ Sub32(frames[2].t, frames[1].t) = Mk32(0, TargetPeriod)

\* C8: a batch without a completed round never runs finish: the timeout that
\* leaves such a batch with no outstanding round changes neither estimate
\* and resolves nothing, and every step that changes an estimate is the fold
\* of a batch that has at least one completed round.
C8_EmptyBatchKeepsEstimate ==
    /\ [][\A b \in 1..Len(batches) :
            (batches'[b].results = <<>> /\ batches'[b].pending < batches[b].pending)
              => /\ rttEwma' = rttEwma /\ offsetEwma' = offsetEwma
                 /\ batches'[b].fin = 0 /\ ~batches'[b].resolved]_vars
    /\ [][(rttEwma' # rttEwma \/ offsetEwma' # offsetEwma)
            => /\ folds' # <<>>
               /\ \A i \in 1..Len(folds') :
                     batches'[folds'[i].b].results # <<>>]_vars
    /\ [](\A b \in 1..Len(batches) :
            batches[b].results = <<>> => batches[b].fin = 0)

\* the only round of the second batch timed out after the first batch had
\* seeded the estimate
C8_Witness ==
    /\ Len(batches) = 2
    /\ batches[2].results = <<>> /\ batches[2].tries = 1
    /\ batches[2].pending = 0 /\ batches[2].fin = 0
    /\ \A tm \in timers : tm.b # 2
    /\ batches[1].fin = 1
    /\ offsetEwma = [val |-> Num(5), has |-> TRUE]

\* H is a half of the rounds rs with the lowest round-trip times
LowestHalf(rs, H) ==
    /\ H \subseteq 1..Len(rs)
    /\ Cardinality(H) = Max(1, Len(rs) \div 2)
    /\ \A i \in H, j \in (1..Len(rs)) \ H : DLeq(rs[i].rtt, rs[j].rtt)

\* v is the median of the offsets of the rounds H: one of them, with at most
\* half of them below it and fewer than half of them above it (of an even
\* number of offsets, the upper of the two in the middle)
MedianOf(rs, H, v) ==
    /\ \E i \in H : rs[i].offset = v
    /\ 2 * Cardinality({i \in H : DLess(rs[i].offset, v)}) <= Cardinality(H)
    /\ 2 * Cardinality({i \in H : DLess(v, rs[i].offset)}) < Cardinality(H)

\* 2^-20: far above the rounding errors of a fold of millisecond values, far
\* below the difference that folding another round would make
FoldTolerance == [s |-> 1, m |-> <<1>>, e |-> -20]

\* the estimate e is the estimate before with x folded in with weight w/10:
\* 10 e = w x + (10 - w) before, up to the rounding of the arithmetic; an
\* unseeded estimate becomes x
FoldOf(e, before, w, x) ==
    /\ e.has
    /\ IF before.has
       THEN DLess(DAbs(DSub(DMul(Num(10), e.val),
                            DAdd(DMul(Num(w), x),
                                 DMul(Num(10 - w), before.val)))),
                  FoldTolerance)
       ELSE e.val = x

\* C9: when a batch concludes, the offset folded into the estimate is the
\* median of the offsets of a half of its completed rounds (at least one
\* round) none of which has a higher RTT than a round outside the half, and
\* the RTT folded in is the lowest RTT of the batch.
C9_MedianOfBestHalf ==
    Len(folds) = 1 =>
      LET rs == batches[folds[1].b].results
      IN  \E H \in SUBSET (1..Len(rs)) :
            /\ LowestHalf(rs, H)
            /\ \E i \in H :
                  /\ MedianOf(rs, H, rs[i].offset)
                  /\ FoldOf(offsetEwma, folds[1].before[2], 2, rs[i].offset)
            /\ \E i \in H :
                  /\ \A j \in 1..Len(rs) : DLeq(rs[i].rtt, rs[j].rtt)
                  /\ FoldOf(rttEwma, folds[1].before[1], 3, rs[i].rtt)

\* the eight rounds of the worked example, the four fastest with the offsets
\* 9, 1, 5, 3: the offset 5 and the RTT 40 seed the estimate
C9_Witness ==
    /\ Len(folds) = 1 /\ ~folds[1].before[2].has
    /\ batches[1].results =
          <<Result(40, 9), Result(42, 1), Result(45, 5), Result(48, 3),
            Result(50, 20), Result(60, 25), Result(70, 30), Result(200, 100)>>
    /\ offsetEwma = [val |-> Num(5), has |-> TRUE]
    /\ rttEwma = [val |-> Num(40), has |-> TRUE]

\* C10: every completed round records rtt = tA - t0 and
\* offset = (t0 + tA)/2 - t1, for the send time t0 of the round, the time tA
\* at which the reply is handled and the t1 of the reply; the record is a
\* result of the batch of the round.
C10_RoundResult ==
    \A i \in 1..Len(pushes) :
      LET p == pushes[i]
      IN  /\ p.res.rtt = Num(p.tA - p.t0)
          /\ DAdd(p.res.offset, p.res.offset) = Num(p.t0 + p.tA - 2 * p.t1)
          /\ \E j \in 1..Len(batches[p.b].results) :
                batches[p.b].results[j] = p.res

\* t0 = 1000, tA = 1050, t1 = 1020 gives offset 5 and rtt 50
C10_Witness ==
    \E i \in 1..Len(pushes) :
      /\ pushes[i].t0 = 1000 /\ pushes[i].tA = 1050 /\ pushes[i].t1 = 1020
      /\ pushes[i].res = [rtt |-> Num(50), offset |-> Num(5)]

\* C11 (as claimed): a round whose timeout has fired is dropped: a reply
\* handled after the timeout of its round records no result.
C11_TimedOutRoundDropped ==
    \A i \in 1..Len(pushes) : ~pushes[i].late

\* a round is outstanding: its request was sent, its reply has not been
\* handled and its timeout is still ahead
Outstanding == {tm \in timers : tm.b > 0 /\ tm.due > now}

\* C12 (as claimed): at every moment at most one sync request is
\* outstanding on the connection.
C12_OneOutstandingRound ==
    Cardinality(Outstanding) <= 1

\* C13 (as claimed): a batch never starts while an earlier batch is in
\* flight, that is, has not concluded and has a round outstanding.
C13_BatchesSerialized ==
    [][Len(batches') > Len(batches)
         => \A tm \in Outstanding : batches[tm.b].resolved]_vars

\* no callback of batch b is left: it has neither a timer nor a listener
Quiescent(b) ==
    /\ \A tm \in timers : tm.b # b
    /\ \A i \in 1..Len(listeners) : listeners[i].b # b

\* C14 (as claimed): every started batch concludes: on a connection that
\* is still open, a batch none of whose callbacks is left has run finish and
\* resolved its promise.
C14_BatchConcludes ==
    (wsState = "open" /\ Len(batches) = 1 /\ Quiescent(1))
        => batches[1].resolved

\* C15 (as claimed): when a connection is opened after the channel closed,
\* the smoothed offset and the smoothed RTT are unseeded.
C15_ResetOnReconnect ==
    (wsState = "connecting" /\ batches # <<>>)
        => (~rttEwma.has /\ ~offsetEwma.has)

\* C16: handling a rotate message advances the rotation index by one
\* (a uint16_t), makes the session named by the old index current and sends
\* exactly one ack "rotate" to the sender; the index, the current session
\* and the log file change in no step but the handling of a rotate message.
C16_RotateOnce ==
    /\ [][(lastOp'.op = "text" /\ lastOp'.msg \in RotateMsgs)
            => /\ idx' = (idx + 1) % W16
               /\ currentLogName' = idx
               /\ logFile' = lastOp'.read
               /\ wsOut' = <<[to |-> {lastOp'.num}, body |-> Ack("rotate")]>>]_vars
    /\ [][(idx' # idx \/ currentLogName' # currentLogName \/ logFile' # logFile)
            => /\ lastOp'.op = "text"
               /\ HasRotate(lastOp'.msg)
               /\ ~HasHello(lastOp'.msg) /\ ~HasSync(lastOp'.msg)]_vars

\* the second rotation, after a frame was emitted
C16_Witness ==
    /\ TextHandled /\ lastOp.msg \in RotateMsgs
    /\ idx = 3 /\ currentLogName = 2
    /\ wsOut = <<[to |-> {lastOp.num}, body |-> Ack("rotate")]>>
    /\ Len(frames) > 0

\* C17: an emission pushes exactly one data frame, to the connected
\* clients; with an endpoint registered it sends exactly one datagram, to
\* that endpoint and port 9001, with the seq, t_ms, tr_us and ts_us of the
\* frame; with no endpoint (0.0.0.0) it sends none.  No other step sends a
\* datagram.
C17_OneFrameOneDatagram ==
    /\ [][(lastOp'.op = "loop" /\ wsOut' # <<>>)
            => /\ Len(wsOut') = 1
               /\ wsOut'[1].to = connected
               /\ wsOut'[1].body.type = "data"
               /\ udpCount' = udpCount + Len(udpOut')
               /\ IF lastClientIP # NoIP
                  THEN /\ Len(udpOut') = 1
                       /\ udpOut'[1].dst = lastClientIP
                       /\ udpOut'[1].port = 9001
                       /\ udpOut'[1].pkt.seq = wsOut'[1].body.seq
                       /\ udpOut'[1].pkt.t_ms = wsOut'[1].body.t
                       /\ udpOut'[1].pkt.tr_us = wsOut'[1].body.tr_us
                       /\ udpOut'[1].pkt.ts_us = wsOut'[1].body.ts_us
                  ELSE udpOut' = <<>>]_vars
    /\ [][udpOut' # <<>> => (lastOp'.op = "loop" /\ wsOut' # <<>>)]_vars

\* a frame without a datagram, then a frame with its datagram, whose send
\* time differs from its read time
C17_Witness ==
    /\ Emitted /\ Len(frames) = 2
    /\ frames[1].dst = NoIP /\ frames[2].dst # NoIP
    /\ Len(udpOut) = 1 /\ udpCount = 1
    /\ udpOut[1].pkt.ts_us # udpOut[1].pkt.tr_us
    /\ udpOut[1].pkt.ts_us = wsOut[1].body.ts_us

\* the page handles the data frame at the head of toCli in this step
FrameHandled ==
    /\ wsState = "open" /\ wsState' = "open"
    /\ toCli # <<>> /\ toCli' = Tail(toCli)
    /\ Head(toCli).type = "data"

\* recvAt - (t + smoothed offset) of the frame at the head of toCli exceeds
\* 80 ms in magnitude
OverThreshold ==
    LET est == DSub(Num(now),
                    DAdd(Num(ToNum(Head(toCli).t)), offsetEwma.val))
    IN  DLess(Num(80), est) \/ DLess(est, Num(-80))

\* the socket opens in this step
Opened == wsState = "connecting" /\ wsState' = "open"

\* C18: a step starts at most one batch; the opening of the socket always
\* starts a batch of 8 rounds; the handling of a data frame starts a batch,
\* of 2 rounds, exactly when its estimated transit time is over the
\* threshold; no other step starts a batch.
C18_Triggers ==
    [][/\ Len(batches') \in {Len(batches), Len(batches) + 1}
       /\ Opened => /\ Len(batches') = Len(batches) + 1
                    /\ batches'[Len(batches')].samples = 8
       /\ FrameHandled =>
            IF OverThreshold
            THEN /\ Len(batches') = Len(batches) + 1
                 /\ batches'[Len(batches')].samples = 2
            ELSE Len(batches') = Len(batches)
       /\ Len(batches') > Len(batches) => (Opened \/ FrameHandled)]_vars

\* after the batch of the connection has seeded the estimate with offset 5,
\* a frame that took 500 ms has started a batch of 2 rounds
C18_Witness ==
    /\ Len(batches) = 2
    /\ batches[1].samples = 8 /\ batches[2].samples = 2
    /\ batches[1].fin = 1
    /\ offsetEwma = [val |-> Num(5), has |-> TRUE]
    /\ batches[2].tries = 1 /\ batches[2].pending = 1
    /\ toCli = <<>>

\* C19: an iteration of loop in which no sample was read, or in which less
\* than 16 ms have passed since the last emission, emits no frame and no
\* datagram and leaves seqNo, lastSend, the endpoint and every other
\* variable of the device as they were: nothing of the sample is kept.
C19_SkippedTick ==
    [][(lastOp'.op = "loop" /\ (~lastOp'.read \/ elapsed < TargetPeriod))
         => /\ wsOut' = <<>> /\ udpOut' = <<>> /\ logOut' = <<>>
            /\ UNCHANGED <<seqNo, lastSend, lastClientIP, udpCount, frames,
                           idx, logFile, currentLogName, connected, clock,
                           usClock, elapsed>>]_vars

\* a sample read 15 ms after an emission was rejected, with an endpoint
\* registered
C19_Witness ==
    /\ lastOp.op = "loop" /\ lastOp.read
    /\ wsOut = <<>>
    /\ elapsed = 15 /\ Len(frames) > 0
    /\ seqNo = frames[Len(frames)].seq
    /\ lastClientIP # NoIP

\* the text m carries an address: "ip":" occurs, followed by a dotted quad
CarriesAddress(m) == m.hasIp /\ Len(m.ip) > 0

\* C20: the endpoint changes only in the handling of a hello that carries
\* an address, and then becomes that address; no sync, rotate, event or
\* unknown text, no connect or disconnect, no iteration of loop and no hello
\* without an address changes it.  So it is 0.0.0.0 as long as no hello with
\* an address was handled.
C20_EndpointOnlyByHello ==
    /\ [][lastClientIP' # lastClientIP
            => /\ lastOp'.op = "text"
               /\ HasHello(lastOp'.msg) /\ CarriesAddress(lastOp'.msg)]_vars
    /\ [][(lastOp'.op = "text" /\ HasHello(lastOp'.msg))
            => lastClientIP' = IF CarriesAddress(lastOp'.msg)
                               THEN lastOp'.msg.ip ELSE lastClientIP]_vars
    /\ []((lastHello = <<>> \/ ~helloSeen) => lastClientIP = NoIP)
    /\ []((lastHello # <<>> /\ CarriesAddress(lastHello[1]))
            => lastClientIP = lastHello[1].ip)

\* the client registered 10.0.0.7, a rotate was handled, a frame was
\* emitted and the client disconnected: the endpoint is still 10.0.0.7
C20_Witness ==
    /\ lastOp.op = "DISCONNECTED"
    /\ lastHello = <<Msg({"hello"}, TRUE, <<10, 0, 0, 7>>, FALSE, 0, "", <<>>)>>
    /\ currentLogName # 0
    /\ Len(frames) > 0 /\ frames[Len(frames)].dst = <<10, 0, 0, 7>>
    /\ connected = {}
    /\ lastClientIP = <<10, 0, 0, 7>>

\* C21 (as claimed): a SyncReply is consumed by at most one round, the
\* round whose request it answers: the results recorded in the handling of
\* one message are at most one, and the t0 the reply echoes is the t0 of the
\* round (to three decimals).
C21_ReplyMatchesRound ==
    /\ Len(pushes) <= 1
    /\ \A i \in 1..Len(pushes) :
          pushes[i].echo \div 10000 = pushes[i].t0

\* C22: the handling of a text message is a first-match chain hello, sync,
\* rotate, else event.  Every handled text sends exactly one message, to the
\* sender only; the message and the effects are those of the first kind
\* whose tag the text contains and of no other: only the hello kind may
\* change the endpoint, only the rotate kind changes the rotation index and
\* the session, only the event kind appends a line to the log.
C22_FirstMatchDispatch ==
    [][(lastOp'.op = "text")
        => LET m == lastOp'.msg
               kind == IF "hello" \in m.tags THEN "hello"
                       ELSE IF "sync" \in m.tags THEN "sync"
                       ELSE IF "rotate" \in m.tags THEN "rotate"
                       ELSE "event"
           IN /\ Len(wsOut') = 1
              /\ wsOut'[1].to = {lastOp'.num}
              /\ IF kind = "sync"
                 THEN /\ wsOut'[1].body.type = "sync"
                      /\ wsOut'[1].body.t1_ms = clock
                 ELSE wsOut'[1].body = [type |-> "ack", cmd |-> kind]
              /\ (kind # "hello") => (lastClientIP' = lastClientIP)
              /\ (kind = "hello" /\ m.hasIp /\ Len(m.ip) > 0)
                    => (lastClientIP' = m.ip)
              /\ IF kind = "rotate"
                 THEN idx' = (idx + 1) % W16 /\ currentLogName' = idx
                 ELSE /\ idx' = idx
                      /\ currentLogName' = currentLogName
                      /\ logFile' = logFile
              /\ IF kind = "event" /\ logFile
                 THEN /\ Len(logOut') = 1
                      /\ logOut'[1].t = clock /\ logOut'[1].kind = m.kind
                 ELSE (kind # "rotate") => (logOut' = <<>>)
              /\ udpOut' = <<>>
              /\ seqNo' = seqNo /\ lastSend' = lastSend]_vars

\* a text with the sync and the rotate tag was answered as a sync request
\* and rotated nothing, after a text with the event and the hello tag had
\* registered its endpoint
C22_Witness ==
    /\ TextHandled
    /\ lastOp.msg.tags = {"sync", "rotate"}
    /\ Len(wsOut) = 1
    /\ wsOut[1].to = {lastOp.num}
    /\ wsOut[1].body.type = "sync"
    /\ idx = 1 /\ currentLogName = 0
    /\ lastClientIP = <<10, 0, 0, 9>>

\* C23 (as claimed): a batch folds into the smoothed estimates at most once:
\* its finish step runs at most one time, a finish step updates the smoothed
\* RTT and the smoothed offset together, and once it has run the batch sends
\* no further sync request.
C23_FinishOnce ==
    /\ [](\A b \in 1..Len(batches) : batches[b].fin <= 1)
    /\ [][\A b \in 1..Len(batches) :
            batches'[b].fin > batches[b].fin
              => /\ \E i \in 1..Len(folds') : folds'[i].b = b
                 /\ rttEwma'.has /\ offsetEwma'.has]_vars
    /\ [][\A b \in 1..Len(batches) :
            batches[b].fin >= 1 => batches'[b].tries = batches[b].tries]_vars

============================================================================
